---------------------------- MODULE Spec2Model ----------------------------
(***************************************************************************)
(* A model of the LocationCache of the edge controller                     *)
(* (cloud/pkg/edgecontroller/manager/location.go).                         *)
(*                                                                         *)
(* The cache owns four sync.Map values: EdgeNodes, configMapNode,          *)
(* secretNode and endpoints.  The values of configMapNode and secretNode   *)
(* are Go slices of strings: a slice is a (pointer, length) pair over a    *)
(* backing array, and two slices may share one backing array.  The         *)
(* backing arrays live in the variable mem.                                *)
(***************************************************************************)
EXTENDS Integers, Sequences, FiniteSets, TLC

VARIABLES
    EdgeNodes,      \* LocationCache.EdgeNodes: the set of keys of the sync.Map
    configMapNode,  \* LocationCache.configMapNode: key -> slice
    secretNode,     \* LocationCache.secretNode: key -> slice
    endpoints,      \* LocationCache.endpoints: key -> v1.Endpoints
    mem,            \* the backing arrays of the []string slices
    proc,           \* the frame of each concurrent caller of AddOrUpdatePod
    last,           \* the most recent call that returned: name, arguments, result
    ncalls,         \* number of calls made so far, one caller at a time
    nconc,          \* number of calls made so far by concurrent callers
    repeats,        \* history: how many times in a row the last call was made
    addedCM,        \* history: key -> node names of the pods added that use it
    addedSecret,    \* history: key -> node names of the pods added that use it
    deleted,        \* history: a DeleteConfigMap or DeleteSecret has been called
    nodeOp,         \* history: node name -> the most recent call naming it
    endpointsOp     \* history: <<namespace, name>> -> the most recent of
                    \* AddOrUpdateEndpoints and DeleteEndpoints naming it

vars == <<EdgeNodes, configMapNode, secretNode, endpoints, mem, proc, last,
          ncalls, nconc, repeats, addedCM, addedSecret, deleted, nodeOp,
          endpointsOp>>

-----------------------------------------------------------------------------
(* Go values *)

\* A nil pointer, nil map or nil slice field of an API object.
Nil == [nil |-> TRUE]

\* A non-nil pointer to a struct that carries a name
\* (ConfigMapVolumeSource, SecretVolumeSource, ConfigMapProjection,
\* ConfigMapEnvSource, ConfigMapKeySelector, ...).
Ref(name) == [Name |-> name]

\* The empty function: a sync.Map with no entry, an empty Go map.
Empty == << >>

\* m with key k bound to v (sync.Map.Store).
Put(m, k, v) == [x \in (DOMAIN m) \cup {k} |-> IF x = k THEN v ELSE m[x]]

\* m without key k (sync.Map.Delete).
Remove(m, k) == [x \in (DOMAIN m) \ {k} |-> m[x]]

\* A slip: the key is built from the name alone.
KeyWithoutNamespace(namespace, name) == "/" \o name

\* fmt.Sprintf("%s/%s", namespace, name)
Key(namespace, name) == namespace \o "/" \o name

-----------------------------------------------------------------------------
(* PodConfigMapsAndSecrets, lines 23-70 *)

RECURSIVE SourcesConfigMaps(_)
\* lines 33-40, the config maps: the switch takes its first true case.
SourcesConfigMaps(sources) ==
    IF sources = << >> THEN << >>
    ELSE (IF Head(sources).ConfigMap # Nil
            THEN <<Head(sources).ConfigMap.Name>> ELSE << >>)
         \o SourcesConfigMaps(Tail(sources))

RECURSIVE SourcesSecrets(_)
\* lines 33-40, the secrets: the Secret case is reached only when the
\* ConfigMap case is false.
SourcesSecrets(sources) ==
    IF sources = << >> THEN << >>
    ELSE (IF Head(sources).ConfigMap = Nil /\ Head(sources).Secret # Nil
            THEN <<Head(sources).Secret.Name>> ELSE << >>)
         \o SourcesSecrets(Tail(sources))

RECURSIVE VolumesConfigMaps(_)
\* lines 25-42, the config maps.
VolumesConfigMaps(volumes) ==
    IF volumes = << >> THEN << >>
    ELSE LET v == Head(volumes) IN
         (IF v.ConfigMap # Nil THEN <<v.ConfigMap.Name>> ELSE << >>)
         \o (IF v.Projected # Nil
               THEN SourcesConfigMaps(v.Projected.Sources) ELSE << >>)
         \o VolumesConfigMaps(Tail(volumes))

RECURSIVE VolumesSecrets(_)
\* lines 25-42, the secrets.
VolumesSecrets(volumes) ==
    IF volumes = << >> THEN << >>
    ELSE LET v == Head(volumes) IN
         (IF v.Secret # Nil THEN <<v.Secret.SecretName>> ELSE << >>)
         \o (IF v.Projected # Nil
               THEN SourcesSecrets(v.Projected.Sources) ELSE << >>)
         \o VolumesSecrets(Tail(volumes))

RECURSIVE EnvFromConfigMaps(_)
\* lines 45-52, the config maps.
EnvFromConfigMaps(envFrom) ==
    IF envFrom = << >> THEN << >>
    ELSE (IF Head(envFrom).ConfigMapRef # Nil
            THEN <<Head(envFrom).ConfigMapRef.Name>> ELSE << >>)
         \o EnvFromConfigMaps(Tail(envFrom))

RECURSIVE EnvFromSecrets(_)
\* lines 45-52, the secrets.
EnvFromSecrets(envFrom) ==
    IF envFrom = << >> THEN << >>
    ELSE (IF Head(envFrom).SecretRef # Nil
            THEN <<Head(envFrom).SecretRef.Name>> ELSE << >>)
         \o EnvFromSecrets(Tail(envFrom))

RECURSIVE EnvConfigMaps(_)
\* lines 53-63, the config maps.
EnvConfigMaps(env) ==
    IF env = << >> THEN << >>
    ELSE LET e == Head(env) IN
         (IF e.ValueFrom # Nil /\ e.ValueFrom.ConfigMapKeyRef # Nil
            THEN <<e.ValueFrom.ConfigMapKeyRef.Name>> ELSE << >>)
         \o EnvConfigMaps(Tail(env))

RECURSIVE EnvSecrets(_)
\* lines 53-63, the secrets: the else-if is reached only when the
\* ConfigMapKeyRef is nil.
EnvSecrets(env) ==
    IF env = << >> THEN << >>
    ELSE LET e == Head(env) IN
         (IF e.ValueFrom # Nil /\ e.ValueFrom.ConfigMapKeyRef = Nil
                               /\ e.ValueFrom.SecretKeyRef # Nil
            THEN <<e.ValueFrom.SecretKeyRef.Name>> ELSE << >>)
         \o EnvSecrets(Tail(env))

RECURSIVE ContainersConfigMaps(_)
\* lines 44-64, the config maps.
ContainersConfigMaps(containers) ==
    IF containers = << >> THEN << >>
    ELSE EnvFromConfigMaps(Head(containers).EnvFrom)
         \o EnvConfigMaps(Head(containers).Env)
         \o ContainersConfigMaps(Tail(containers))

RECURSIVE ContainersSecrets(_)
\* lines 44-64, the secrets.
ContainersSecrets(containers) ==
    IF containers = << >> THEN << >>
    ELSE EnvFromSecrets(Head(containers).EnvFrom)
         \o EnvSecrets(Head(containers).Env)
         \o ContainersSecrets(Tail(containers))

\* A slip: the image pull secrets are left out.
PullSecretsLeftOut(refs) == << >>

RECURSIVE PullSecrets(_)
\* lines 66-68.
PullSecrets(refs) ==
    IF refs = << >> THEN << >>
    ELSE <<Head(refs).Name>> \o PullSecrets(Tail(refs))

PodConfigMapsAndSecrets(pod) ==
    [configMaps |-> VolumesConfigMaps(pod.Spec.Volumes)
                    \o ContainersConfigMaps(pod.Spec.Containers),
     secrets    |-> VolumesSecrets(pod.Spec.Volumes)
                    \o ContainersSecrets(pod.Spec.Containers)
                    \o PullSecrets(pod.Spec.ImagePullSecrets)]

-----------------------------------------------------------------------------
(* Go slices of strings *)

\* The nil slice: no backing array, length 0, capacity 0.
NilSlice == [ptr |-> 0, len |-> 0]

\* cap(s)
Cap(m, s) == IF s.ptr = 0 THEN 0 ELSE Len(m[s.ptr])

\* The elements of s, s[0] .. s[len(s)-1], as the memory m holds them now.
Elems(m, s) == IF s.ptr = 0 THEN << >> ELSE SubSeq(m[s.ptr], 1, s.len)

\* An address no array of m has.
NewAddr(m) == CHOOSE a \in 1..(Cardinality(DOMAIN m) + 1) : a \notin DOMAIN m

\* The Go toolchain that builds the package.  The runtime's growslice, which
\* append calls at line 78, has three forms: that of the releases up to
\* 1.17 ("go1.17"), that of 1.18 to 1.21 ("go1.18") and that of 1.22 and
\* later ("go1.22").  Up to a capacity of 32 the three give 1, 2, 4, 8, 16, 32.
Toolchain == "go1.17"

\* The sizes in bytes of the runtime's small allocations (sizeclasses.go).
class_to_size ==
    << 8, 16, 24, 32, 48, 64, 80, 96, 112, 128, 144, 160, 176, 192, 208, 224,
       240, 256, 288, 320, 352, 384, 416, 448, 480, 512, 576, 640, 704, 768,
       896, 1024, 1152, 1280, 1408, 1536, 1792, 2048, 2304, 2688, 3072, 3200,
       3456, 4096, 4864, 5120, 5376, 6144, 6528, 6784, 6912, 8192, 9472, 9728,
       10240, 10880, 12288, 13568, 14336, 16384, 18432, 19072, 20480, 21760,
       24576, 27264, 28672, 32768 >>

\* The smallest allocation size that holds size bytes, for size <= 32768.
SizeClass(size) ==
    class_to_size[CHOOSE c \in 1..Len(class_to_size) :
                     /\ class_to_size[c] >= size
                     /\ \A d \in 1..(c - 1) : class_to_size[d] < size]

\* A large allocation takes whole pages of 8192 bytes.
PageAligned(size) == ((size + 8191) \div 8192) * 8192

\* The runtime's roundupsize for an array of strings: the bytes malloc
\* hands out for a request of size bytes.  From 1.22 on an array of more
\* than 512 bytes that holds pointers gives 8 of its bytes to a header.
roundupsize(size) ==
    IF Toolchain = "go1.22"
      THEN IF size > 32760 THEN PageAligned(size)
           ELSE IF size > 512 THEN SizeClass(size + 8) - 8
           ELSE SizeClass(size)
      ELSE IF size < 32768 THEN SizeClass(size) ELSE PageAligned(size)

RECURSIVE GrowByQuarters(_, _)
\* The loop of growslice for a slice at or over the doubling threshold:
\* the capacity grows by a quarter (up to 1.17), or by a quarter and 192
\* (from 1.18), until it holds n elements.
GrowByQuarters(newcap, n) ==
    IF newcap >= n THEN newcap
    ELSE IF Toolchain = "go1.17" THEN GrowByQuarters(newcap + newcap \div 4, n)
    ELSE GrowByQuarters(newcap + (newcap + 768) \div 4, n)

\* The capacity growslice aims at before it rounds up to an allocation
\* size: n if doubling is not enough, the double below the threshold of
\* 1024 elements (up to 1.17) or 256 elements (from 1.18).
nextslicecap(oldCap, n) ==
    IF n > 2 * oldCap THEN n
    ELSE IF oldCap < (IF Toolchain = "go1.17" THEN 1024 ELSE 256)
      THEN 2 * oldCap
    ELSE GrowByQuarters(oldCap, n)

\* The capacity append gives a []string that has to grow from oldCap to
\* hold n elements: the strings of 16 bytes that fit into the allocation.
GrowCap(oldCap, n) == roundupsize(nextslicecap(oldCap, n) * 16) \div 16

\* []string{node}, line 93 and line 107: a fresh array of capacity 1.
Literal(m, node) ==
    LET a == NewAddr(m) IN
    [mem |-> Put(m, a, <<node>>), nodes |-> [ptr |-> a, len |-> 1]]

\* append(s, node), line 78.  With room left in the backing array the
\* element is written in place, into the array s shares with every other
\* slice over it; otherwise the elements are copied into a fresh array.
append(m, s, node) ==
    IF s.len < Cap(m, s)
      THEN [mem   |-> [m EXCEPT ![s.ptr][s.len + 1] = node],
            nodes |-> [ptr |-> s.ptr, len |-> s.len + 1]]
      ELSE LET a == NewAddr(m)
               c == GrowCap(Cap(m, s), s.len + 1)
           IN  [mem   |-> Put(m, a, [i \in 1..c |->
                              IF i <= s.len THEN m[s.ptr][i]
                              ELSE IF i = s.len + 1 THEN node ELSE ""]),
                nodes |-> [ptr |-> a, len |-> s.len + 1]]

\* The loop of newNodes, lines 73-77: node is among the elements.
Found(m, oldNodes, node) ==
    \E i \in 1..oldNodes.len : m[oldNodes.ptr][i] = node

\* A slip: newNodes appends without looking for the node.
newNodesWithoutSearch(m, oldNodes, node) == append(m, oldNodes, node)

\* A slip: the list of a node that is not found is started afresh.
newNodesForgetsOld(m, oldNodes, node) ==
    IF Found(m, oldNodes, node)
      THEN [mem |-> m, nodes |-> oldNodes]
      ELSE Literal(m, node)

\* newNodes, lines 72-79.
newNodes(m, oldNodes, node) ==
    IF Found(m, oldNodes, node)
      THEN [mem |-> m, nodes |-> oldNodes]
      ELSE append(m, oldNodes, node)

\* A slip: a pod that has no node yet is passed over.
UpdateKeyUnlessUnassigned(index, m, key, node) ==
    IF node = "" THEN [index |-> index, mem |-> m]
    ELSE LET r == IF key \in DOMAIN index
                    THEN newNodes(m, index[key], node)
                    ELSE Literal(m, node)
         IN  [index |-> Put(index, key, r.nodes), mem |-> r.mem]

\* One iteration of a loop of AddOrUpdatePod run without interruption,
\* lines 85-95 and lines 99-109: Load, newNodes or the literal, Store.
UpdateKey(index, m, key, node) ==
    LET r == IF key \in DOMAIN index
               THEN newNodes(m, index[key], node)
               ELSE Literal(m, node)
    IN  [index |-> Put(index, key, r.nodes), mem |-> r.mem]

RECURSIVE UpdateKeys(_, _, _, _, _)
\* A whole loop of AddOrUpdatePod run without interruption, lines 84-96
\* and lines 98-110.
UpdateKeys(index, m, namespace, names, node) ==
    IF names = << >> THEN [index |-> index, mem |-> m]
    ELSE LET r == UpdateKey(index, m, Key(namespace, Head(names)), node)
         IN  UpdateKeys(r.index, r.mem, namespace, Tail(names), node)

\* ConfigMapNodes, lines 114-123: the stored slice itself, or nil.
ConfigMapNodes(namespace, name) ==
    IF Key(namespace, name) \in DOMAIN configMapNode
      THEN configMapNode[Key(namespace, name)] ELSE NilSlice

\* SecretNodes, lines 126-135: the stored slice itself, or nil.
SecretNodes(namespace, name) ==
    IF Key(namespace, name) \in DOMAIN secretNode
      THEN secretNode[Key(namespace, name)] ELSE NilSlice

-----------------------------------------------------------------------------
(* Addresses carry no meaning in Go: after every step the arrays that are  *)
(* still referenced are renumbered in the order in which the maps, the     *)
(* callers' frames and the last result refer to them, and the others are   *)
(* dropped (garbage).                                                      *)

RECURSIVE SetToSeq(_)
SetToSeq(S) ==
    IF S = {} THEN << >>
    ELSE LET x == CHOOSE y \in S : TRUE IN <<x>> \o SetToSeq(S \ {x})

RECURSIVE MapPtrs(_, _)
MapPtrs(index, keys) ==
    IF keys = << >> THEN << >>
    ELSE <<index[Head(keys)].ptr>> \o MapPtrs(index, Tail(keys))

RECURSIVE FramePtrs(_, _)
FramePtrs(pr, ps) ==
    IF ps = << >> THEN << >>
    ELSE <<pr[Head(ps)].value.ptr, pr[Head(ps)].newNodes.ptr>>
         \o FramePtrs(pr, Tail(ps))

RECURSIVE Distinct(_, _)
Distinct(ptrs, seen) ==
    IF ptrs = << >> THEN << >>
    ELSE IF Head(ptrs) = 0 \/ Head(ptrs) \in seen
           THEN Distinct(Tail(ptrs), seen)
           ELSE <<Head(ptrs)>> \o Distinct(Tail(ptrs), seen \cup {Head(ptrs)})

HasNodes(l) == "nodes" \in DOMAIN l

Live(cm, sec, pr, l) ==
    Distinct(MapPtrs(cm, SetToSeq(DOMAIN cm))
             \o MapPtrs(sec, SetToSeq(DOMAIN sec))
             \o FramePtrs(pr, SetToSeq(DOMAIN pr))
             \o (IF HasNodes(l) THEN <<l.nodes.ptr>> ELSE << >>), {})

Renum(order, s) ==
    IF s.ptr = 0 THEN s
    ELSE [s EXCEPT !.ptr = CHOOSE i \in 1..Len(order) : order[i] = s.ptr]

\* The step's result: the maps, the frames, the last result and the memory.
Commit(cm, sec, m, pr, l) ==
    LET order == Live(cm, sec, pr, l) IN
    /\ configMapNode' = [k \in DOMAIN cm |-> Renum(order, cm[k])]
    /\ secretNode' = [k \in DOMAIN sec |-> Renum(order, sec[k])]
    /\ proc' = [p \in DOMAIN pr |->
                  [pr[p] EXCEPT !.value = Renum(order, @),
                                !.newNodes = Renum(order, @)]]
    /\ last' = IF HasNodes(l) THEN [l EXCEPT !.nodes = Renum(order, @)] ELSE l
    /\ mem' = [a \in 1..Len(order) |-> m[order[a]]]

-----------------------------------------------------------------------------
(* What a caller reads *)

\* The node names a query on key would return now.
ListOf(index, m, key) ==
    IF key \in DOMAIN index THEN Elems(m, index[key]) ELSE << >>

\* Every key of an index with the node names it holds.
View(index, m) == [k \in DOMAIN index |-> Elems(m, index[k])]

\* How many times x occurs in seq.
Count(seq, x) == Cardinality({i \in 1..Len(seq) : seq[i] = x})

\* The elements of seq as a set.
Range(seq) == {seq[i] : i \in 1..Len(seq)}

\* The nodes of the pods added so far that use the object.
AddedTo(added, namespace, name) ==
    IF <<namespace, name>> \in DOMAIN added
      THEN added[<<namespace, name>>] ELSE {}

-----------------------------------------------------------------------------
(* The record of calls *)

\* No call has returned yet.
NoCall == [op |-> "none", args |-> << >>]

\* A call of op with arguments args has returned: it is the last call, and
\* one more of a run of the same call if the call before it was the same.
Returned(op, args) ==
    /\ ncalls' = ncalls + 1
    /\ repeats' = IF last.op = op /\ last.args = args THEN repeats + 1 ELSE 1

RECURSIVE Noted(_, _, _, _)
\* The history of a key: the node names of the pods added that use it.
Noted(added, namespace, names, node) ==
    IF names = << >> THEN added
    ELSE LET k == <<namespace, Head(names)>>
             old == IF k \in DOMAIN added THEN added[k] ELSE {}
         IN  Noted(Put(added, k, old \cup {node}), namespace, Tail(names), node)

-----------------------------------------------------------------------------
(* The reverse index, one caller at a time *)

\* Longest history of calls explored.
MaxCalls == 3

Namespaces == {"ns1", "ns2"}
ConfigMapNames == {"cfg1", "cfg2"}
SecretNames == {"sec1"}
\* The node names of pods; a pod that is not scheduled yet has none.
PodNodes == {"", "n1", "n2"}

Volume(configMap, secret, projected) ==
    [ConfigMap |-> configMap, Secret |-> secret, Projected |-> projected]
SecretVolume(name) == [SecretName |-> name]
Projection(configMap, secret) == [ConfigMap |-> configMap, Secret |-> secret]
Projected(sources) == [Sources |-> sources]
Container(envFrom, env) == [EnvFrom |-> envFrom, Env |-> env]
EnvFromSource(configMapRef, secretRef) ==
    [ConfigMapRef |-> configMapRef, SecretRef |-> secretRef]
EnvVar(valueFrom) == [ValueFrom |-> valueFrom]
EnvVarSource(configMapKeyRef, secretKeyRef) ==
    [ConfigMapKeyRef |-> configMapKeyRef, SecretKeyRef |-> secretKeyRef]
PodSpec(volumes, containers, imagePullSecrets) ==
    [NodeName |-> "", Volumes |-> volumes, Containers |-> containers,
     ImagePullSecrets |-> imagePullSecrets]
Pod(namespace, nodeName, spec) ==
    [Namespace |-> namespace, Spec |-> [spec EXCEPT !.NodeName = nodeName]]

\* The pod specs the callers of the index pass: no reference; one config
\* map; one secret; two config maps, the first named twice, and a secret.
IndexPodSpecs ==
    { PodSpec(<< >>, << >>, << >>),
      PodSpec(<<Volume(Ref("cfg1"), Nil, Nil)>>, << >>, << >>),
      PodSpec(<< >>, << >>, <<Ref("sec1")>>),
      PodSpec(<<Volume(Ref("cfg1"), Nil, Nil), Volume(Ref("cfg2"), Nil, Nil)>>,
              <<Container(<<EnvFromSource(Nil, Ref("sec1"))>>,
                          <<EnvVar(EnvVarSource(Ref("cfg1"), Nil))>>)>>,
              << >>) }

IndexPods ==
    { Pod(ns, n, sp) : ns \in Namespaces, n \in PodNodes, sp \in IndexPodSpecs }

\* AddOrUpdatePod, lines 82-111, by a caller that no other call interrupts.
AddOrUpdatePod(pod) ==
    LET ex == PodConfigMapsAndSecrets(pod)
        r1 == UpdateKeys(configMapNode, mem, pod.Namespace, ex.configMaps,
                         pod.Spec.NodeName)
        r2 == UpdateKeys(secretNode, r1.mem, pod.Namespace, ex.secrets,
                         pod.Spec.NodeName)
    IN  /\ ncalls < MaxCalls
        /\ Commit(r1.index, r2.index, r2.mem, proc,
                  [op |-> "AddOrUpdatePod", args |-> <<pod>>])
        /\ Returned("AddOrUpdatePod", <<pod>>)
        /\ addedCM' = Noted(addedCM, pod.Namespace, ex.configMaps, pod.Spec.NodeName)
        /\ addedSecret' = Noted(addedSecret, pod.Namespace, ex.secrets,
                                pod.Spec.NodeName)
        /\ UNCHANGED <<EdgeNodes, endpoints, deleted, nodeOp,
                       endpointsOp, nconc>>

\* A call of ConfigMapNodes, lines 114-123.
CallConfigMapNodes(namespace, name) ==
    /\ ncalls < MaxCalls
    /\ Commit(configMapNode, secretNode, mem, proc,
              [op |-> "ConfigMapNodes", args |-> <<namespace, name>>,
               nodes |-> ConfigMapNodes(namespace, name)])
    /\ Returned("ConfigMapNodes", <<namespace, name>>)
    /\ UNCHANGED <<EdgeNodes, endpoints, addedCM, addedSecret, deleted, nodeOp,
                   endpointsOp, nconc>>

\* A call of SecretNodes, lines 126-135.
CallSecretNodes(namespace, name) ==
    /\ ncalls < MaxCalls
    /\ Commit(configMapNode, secretNode, mem, proc,
              [op |-> "SecretNodes", args |-> <<namespace, name>>,
               nodes |-> SecretNodes(namespace, name)])
    /\ Returned("SecretNodes", <<namespace, name>>)
    /\ UNCHANGED <<EdgeNodes, endpoints, addedCM, addedSecret, deleted, nodeOp,
                   endpointsOp, nconc>>

\* A slip: DeleteConfigMap leaves the key in the map.
DeleteConfigMapKeepsKey(namespace, name) ==
    /\ ncalls < MaxCalls
    /\ Commit(configMapNode, secretNode, mem, proc,
              [op |-> "DeleteConfigMap", args |-> <<namespace, name>>])
    /\ Returned("DeleteConfigMap", <<namespace, name>>)
    /\ deleted' = TRUE
    /\ UNCHANGED <<EdgeNodes, endpoints, addedCM, addedSecret, nodeOp,
                   endpointsOp, nconc>>

\* A slip: the config map is deleted in every namespace.
DeleteConfigMapEverywhere(namespace, name) ==
    /\ ncalls < MaxCalls
    /\ Commit([k \in DOMAIN configMapNode \ {Key(ns, name) : ns \in Namespaces}
                 |-> configMapNode[k]],
              secretNode, mem, proc,
              [op |-> "DeleteConfigMap", args |-> <<namespace, name>>])
    /\ Returned("DeleteConfigMap", <<namespace, name>>)
    /\ deleted' = TRUE
    /\ UNCHANGED <<EdgeNodes, endpoints, addedCM, addedSecret, nodeOp,
                   endpointsOp, nconc>>

\* DeleteConfigMap, lines 149-151.
DeleteConfigMap(namespace, name) ==
    /\ ncalls < MaxCalls
    /\ Commit(Remove(configMapNode, Key(namespace, name)), secretNode, mem,
              proc, [op |-> "DeleteConfigMap", args |-> <<namespace, name>>])
    /\ Returned("DeleteConfigMap", <<namespace, name>>)
    /\ deleted' = TRUE
    /\ UNCHANGED <<EdgeNodes, endpoints, addedCM, addedSecret, nodeOp,
                   endpointsOp, nconc>>

\* DeleteSecret, lines 154-156.
DeleteSecret(namespace, name) ==
    /\ ncalls < MaxCalls
    /\ Commit(configMapNode, Remove(secretNode, Key(namespace, name)), mem,
              proc, [op |-> "DeleteSecret", args |-> <<namespace, name>>])
    /\ Returned("DeleteSecret", <<namespace, name>>)
    /\ deleted' = TRUE
    /\ UNCHANGED <<EdgeNodes, endpoints, addedCM, addedSecret, nodeOp,
                   endpointsOp, nconc>>

\* The state after construction: four empty maps, no call made.
Init ==
    /\ EdgeNodes = {}
    /\ configMapNode = Empty
    /\ secretNode = Empty
    /\ endpoints = Empty
    /\ mem = Empty
    /\ proc = Empty
    /\ last = NoCall
    /\ ncalls = 0
    /\ repeats = 0
    /\ addedCM = Empty
    /\ addedSecret = Empty
    /\ deleted = FALSE
    /\ nodeOp = Empty
    /\ endpointsOp = Empty
    /\ nconc = 0

Next ==
    \/ \E pod \in IndexPods : AddOrUpdatePod(pod)
    \/ \E ns \in Namespaces, name \in ConfigMapNames :
          CallConfigMapNodes(ns, name)
    \/ \E ns \in Namespaces, name \in SecretNames : CallSecretNodes(ns, name)
    \/ \E ns \in Namespaces, name \in ConfigMapNames : DeleteConfigMap(ns, name)
    \/ \E ns \in Namespaces, name \in SecretNames : DeleteSecret(ns, name)

Spec == Init /\ [][Next]_vars

-----------------------------------------------------------------------------
(* The set of edge nodes *)

\* The node names the callers pass.
EdgeNames == {"n1", "n2", "n3"}

\* A slip: the flag of the lookup is negated.
IsEdgeNodeNegated(nodeName) == nodeName \notin EdgeNodes

\* IsEdgeNode, lines 138-141.
IsEdgeNode(nodeName) == nodeName \in EdgeNodes

\* A call of IsEdgeNode.
CallIsEdgeNode(nodeName) ==
    /\ last' = [op |-> "IsEdgeNode", args |-> <<nodeName>>,
                ok |-> IsEdgeNode(nodeName)]
    /\ UNCHANGED <<EdgeNodes, configMapNode, secretNode, endpoints, mem, proc,
                   ncalls, repeats, addedCM, addedSecret, deleted, nodeOp,
                   endpointsOp, nconc>>

\* UpdateEdgeNode, lines 144-146.
UpdateEdgeNode(nodeName) ==
    /\ EdgeNodes' = EdgeNodes \cup {nodeName}
    /\ last' = [op |-> "UpdateEdgeNode", args |-> <<nodeName>>]
    /\ nodeOp' = Put(nodeOp, nodeName, "UpdateEdgeNode")
    /\ UNCHANGED <<configMapNode, secretNode, endpoints, mem, proc, ncalls,
                   repeats, addedCM, addedSecret, deleted, endpointsOp, nconc>>

\* A slip: DeleteNode leaves the node in the set.
DeleteNodeKeepsNode(nodeName) ==
    /\ last' = [op |-> "DeleteNode", args |-> <<nodeName>>]
    /\ nodeOp' = Put(nodeOp, nodeName, "DeleteNode")
    /\ UNCHANGED <<EdgeNodes, configMapNode, secretNode, endpoints, mem, proc,
                   ncalls, repeats, addedCM, addedSecret, deleted,
                   endpointsOp, nconc>>

\* DeleteNode, lines 159-161.
DeleteNode(nodeName) ==
    /\ EdgeNodes' = EdgeNodes \ {nodeName}
    /\ last' = [op |-> "DeleteNode", args |-> <<nodeName>>]
    /\ nodeOp' = Put(nodeOp, nodeName, "DeleteNode")
    /\ UNCHANGED <<configMapNode, secretNode, endpoints, mem, proc, ncalls,
                   repeats, addedCM, addedSecret, deleted, endpointsOp, nconc>>

NextEdge ==
    \/ \E n \in EdgeNames : UpdateEdgeNode(n)
    \/ \E n \in EdgeNames : DeleteNode(n)
    \/ \E n \in EdgeNames : CallIsEdgeNode(n)

SpecEdge == Init /\ [][NextEdge]_vars

-----------------------------------------------------------------------------
(* The endpoints store *)

\* A non-nil Go map with the given key-value pairs.
GoMap(pairs) == [kv |-> pairs]

\* A non-nil Go slice with the given elements.
GoSlice(elems) == [elems |-> elems]

\* A v1.EndpointSubset with the given addresses.
EndpointSubset(addresses) == [Addresses |-> GoSlice(addresses)]

\* A v1.Endpoints: its ObjectMeta and its Subsets.
Endpoints(namespace, name, version, generation, annotations, labels, subsets) ==
    [ObjectMeta |-> [Namespace |-> namespace, Name |-> name,
                     ResourceVersion |-> version,
                     Generation |-> generation,
                     Annotations |-> annotations, Labels |-> labels],
     Subsets |-> subsets]

\* The fields that change on every write: resource version, generation
\* and annotations.
ChurnValues ==
    { <<"1", 1, Nil>>, <<"2", 2, GoMap({<<"a", "1">>})>> }

LabelValues == { Nil, GoMap({}), GoMap({<<"app", "x">>}) }

SubsetsValues ==
    { Nil, GoSlice(<< >>),
      GoSlice(<<EndpointSubset(<<"ip1">>)>>),
      GoSlice(<<EndpointSubset(<<"ip1", "ip2">>)>>) }

EndpointsNames == {"ep1", "ep2"}

\* The endpoints objects the callers pass.
EndpointsObjects ==
    { Endpoints("ns1", name, c[1], c[2], c[3], l, s) :
        name \in EndpointsNames, c \in ChurnValues, l \in LabelValues,
        s \in SubsetsValues }

\* reflect.DeepEqual on the values of the model: nil and empty maps and
\* slices are different values, everything else compares by content.
DeepEqual(a, b) == a = b

\* The key of an endpoints object, lines 165, 170 and 175.
EndpointsKey(e) == Key(e.ObjectMeta.Namespace, e.ObjectMeta.Name)

\* A slip: the generation of the stored object is not overwritten.
MaskedWithoutGeneration(old, new) ==
    [old EXCEPT !.ObjectMeta.ResourceVersion = new.ObjectMeta.ResourceVersion,
                !.ObjectMeta.Annotations = new.ObjectMeta.Annotations]

\* The copy of the stored object that IsEndpointsUpdated compares,
\* lines 184-186.
Masked(old, new) ==
    [old EXCEPT !.ObjectMeta.ResourceVersion = new.ObjectMeta.ResourceVersion,
                !.ObjectMeta.Generation = new.ObjectMeta.Generation,
                !.ObjectMeta.Annotations = new.ObjectMeta.Annotations]

\* A slip: an object that is not in the cache counts as not updated.
IsEndpointsUpdatedFalseOnMiss(new) ==
    /\ EndpointsKey(new) \in DOMAIN endpoints
    /\ LET old == Masked(endpoints[EndpointsKey(new)], new) IN
       \/ ~DeepEqual(old.ObjectMeta, new.ObjectMeta)
       \/ ~DeepEqual(old.Subsets, new.Subsets)

\* A slip: only the ObjectMeta is compared.
IsEndpointsUpdatedMetaOnly(new) ==
    IF EndpointsKey(new) \notin DOMAIN endpoints THEN TRUE
    ELSE LET old == Masked(endpoints[EndpointsKey(new)], new) IN
         ~DeepEqual(old.ObjectMeta, new.ObjectMeta)

\* IsEndpointsUpdated, lines 174-189.
IsEndpointsUpdated(new) ==
    IF EndpointsKey(new) \notin DOMAIN endpoints THEN TRUE
    ELSE LET old == Masked(endpoints[EndpointsKey(new)], new) IN
         \/ ~DeepEqual(old.ObjectMeta, new.ObjectMeta)
         \/ ~DeepEqual(old.Subsets, new.Subsets)

\* GetAllEndpoints, lines 192-202: the stored objects, in no order.
GetAllEndpoints == {endpoints[k] : k \in DOMAIN endpoints}

\* A slip: an object is stored only under a key that holds none.
AddOrUpdateEndpointsKeepsFirst(e) ==
    /\ endpoints' = IF EndpointsKey(e) \in DOMAIN endpoints THEN endpoints
                      ELSE Put(endpoints, EndpointsKey(e), e)
    /\ last' = [op |-> "AddOrUpdateEndpoints", args |-> <<e>>]
    /\ endpointsOp' = Put(endpointsOp, <<e.ObjectMeta.Namespace,
                                          e.ObjectMeta.Name>>,
                          "AddOrUpdateEndpoints")
    /\ UNCHANGED <<EdgeNodes, configMapNode, secretNode, mem, proc, ncalls,
                   repeats, addedCM, addedSecret, deleted, nodeOp, nconc>>

\* AddOrUpdateEndpoints, lines 164-166.
AddOrUpdateEndpoints(e) ==
    /\ endpoints' = Put(endpoints, EndpointsKey(e), e)
    /\ last' = [op |-> "AddOrUpdateEndpoints", args |-> <<e>>]
    /\ endpointsOp' = Put(endpointsOp, <<e.ObjectMeta.Namespace,
                                          e.ObjectMeta.Name>>,
                          "AddOrUpdateEndpoints")
    /\ UNCHANGED <<EdgeNodes, configMapNode, secretNode, mem, proc, ncalls,
                   repeats, addedCM, addedSecret, deleted, nodeOp, nconc>>

\* A slip: DeleteEndpoints empties the store.
DeleteEndpointsClearsStore(e) ==
    /\ endpoints' = Empty
    /\ last' = [op |-> "DeleteEndpoints", args |-> <<e>>]
    /\ endpointsOp' = Put(endpointsOp, <<e.ObjectMeta.Namespace,
                                          e.ObjectMeta.Name>>,
                          "DeleteEndpoints")
    /\ UNCHANGED <<EdgeNodes, configMapNode, secretNode, mem, proc, ncalls,
                   repeats, addedCM, addedSecret, deleted, nodeOp, nconc>>

\* DeleteEndpoints, lines 169-171.
DeleteEndpoints(e) ==
    /\ endpoints' = Remove(endpoints, EndpointsKey(e))
    /\ last' = [op |-> "DeleteEndpoints", args |-> <<e>>]
    /\ endpointsOp' = Put(endpointsOp, <<e.ObjectMeta.Namespace,
                                          e.ObjectMeta.Name>>,
                          "DeleteEndpoints")
    /\ UNCHANGED <<EdgeNodes, configMapNode, secretNode, mem, proc, ncalls,
                   repeats, addedCM, addedSecret, deleted, nodeOp, nconc>>

\* A slip: the comparison copy, with the three fields of the argument, is
\* what the cache holds afterwards.
CallIsEndpointsUpdatedKeepsCopy(e) ==
    /\ last' = [op |-> "IsEndpointsUpdated", args |-> <<e>>,
                updated |-> IsEndpointsUpdated(e)]
    /\ endpoints' = IF EndpointsKey(e) \in DOMAIN endpoints
                      THEN Put(endpoints, EndpointsKey(e),
                               Masked(endpoints[EndpointsKey(e)], e))
                      ELSE endpoints
    /\ UNCHANGED <<EdgeNodes, configMapNode, secretNode, mem, proc,
                   ncalls, repeats, addedCM, addedSecret, deleted, nodeOp,
                   endpointsOp, nconc>>

\* A call of IsEndpointsUpdated.
CallIsEndpointsUpdated(e) ==
    /\ last' = [op |-> "IsEndpointsUpdated", args |-> <<e>>,
                updated |-> IsEndpointsUpdated(e)]
    /\ UNCHANGED <<EdgeNodes, configMapNode, secretNode, endpoints, mem, proc,
                   ncalls, repeats, addedCM, addedSecret, deleted, nodeOp,
                   endpointsOp, nconc>>

\* A call of GetAllEndpoints.
CallGetAllEndpoints ==
    /\ last' = [op |-> "GetAllEndpoints", args |-> << >>,
                all |-> GetAllEndpoints]
    /\ UNCHANGED <<EdgeNodes, configMapNode, secretNode, endpoints, mem, proc,
                   ncalls, repeats, addedCM, addedSecret, deleted, nodeOp,
                   endpointsOp, nconc>>

\* The objects DeleteEndpoints is called with: one for each key.
DeletedObjects ==
    { Endpoints("ns1", name, "1", 1, Nil, Nil, Nil) : name \in EndpointsNames }

NextEndpoints ==
    \/ \E e \in EndpointsObjects : AddOrUpdateEndpoints(e)
    \/ \E e \in DeletedObjects : DeleteEndpoints(e)
    \/ \E e \in EndpointsObjects : CallIsEndpointsUpdated(e)
    \/ CallGetAllEndpoints

SpecEndpoints == Init /\ [][NextEndpoints]_vars

-----------------------------------------------------------------------------
(* PodConfigMapsAndSecrets on its own *)

\* The sequences over S of at most one element, and of at most two.
UpToOne(S) == {<< >>} \cup {<<x>> : x \in S}
UpToTwo(S) == UpToOne(S) \cup {<<x, y>> : x \in S, y \in S}

\* Projected sources: nothing set, a config map, a secret, or both.
ExtractProjections ==
    { Projection(c, x) : c \in {Nil, Ref("cfg2")}, x \in {Nil, Ref("sec1")} }

ExtractVolumes ==
    { Volume(c, x, pr) :
        c \in {Nil, Ref("cfg1")},
        x \in {Nil, SecretVolume("sec2")},
        pr \in {Nil} \cup {Projected(srcs) : srcs \in UpToOne(ExtractProjections)} }

ExtractEnvFrom ==
    { EnvFromSource(c, x) : c \in {Nil, Ref("cfg1")}, x \in {Nil, Ref("sec2")} }

ExtractEnv ==
    { EnvVar(Nil) } \cup
    { EnvVar(EnvVarSource(c, x)) :
        c \in {Nil, Ref("cfg2")}, x \in {Nil, Ref("sec1")} }

ExtractContainers ==
    { Container(ef, env) :
        ef \in UpToOne(ExtractEnvFrom), env \in UpToOne(ExtractEnv) }

\* The pods PodConfigMapsAndSecrets is applied to.
ExtractPods ==
    { Pod("ns1", "n1", PodSpec(vs, cs, ps)) :
        vs \in UpToTwo(ExtractVolumes),
        cs \in UpToOne(ExtractContainers),
        ps \in UpToOne({Ref("sec3")}) }

\* A pod is given.
InitExtract ==
    /\ EdgeNodes = {}
    /\ configMapNode = Empty
    /\ secretNode = Empty
    /\ endpoints = Empty
    /\ mem = Empty
    /\ proc = Empty
    /\ last \in {[op |-> "given", args |-> <<pod>>] : pod \in ExtractPods}
    /\ ncalls = 0
    /\ repeats = 0
    /\ addedCM = Empty
    /\ addedSecret = Empty
    /\ deleted = FALSE
    /\ nodeOp = Empty
    /\ endpointsOp = Empty
    /\ nconc = 0

\* A call of PodConfigMapsAndSecrets on the pod given.
CallPodConfigMapsAndSecrets ==
    /\ last.op = "given"
    /\ last' = [op |-> "PodConfigMapsAndSecrets", args |-> last.args,
                configMaps |-> PodConfigMapsAndSecrets(last.args[1]).configMaps,
                secrets |-> PodConfigMapsAndSecrets(last.args[1]).secrets]
    /\ UNCHANGED <<EdgeNodes, configMapNode, secretNode, endpoints, mem, proc,
                   ncalls, repeats, addedCM, addedSecret, deleted, nodeOp,
                   endpointsOp, nconc>>

NextExtract == CallPodConfigMapsAndSecrets

SpecExtract == InitExtract /\ [][NextExtract]_vars

-----------------------------------------------------------------------------
(* The reverse index under concurrent callers.  sync.Map makes each Load,  *)
(* Store and Delete atomic; the steps of AddOrUpdatePod between them are   *)
(* not, and the elements of a backing array are read and written with no   *)
(* synchronisation at all.  An element is a string header of two words, a  *)
(* pointer to the bytes and a length, and the machine reads and writes one *)
(* word at a time.  A caller takes one step for each access to what it     *)
(* shares with the others: the Load, each word the loop of newNodes reads, *)
(* each word the append writes in place or reads to copy, and the Store.   *)

\* Number of concurrent callers.
NumProcs == 2

\* Number of calls the concurrent callers make between them.
MaxConcCalls == 3

Procs == 1..NumProcs

\* The node names of the pods, in the order in which the callers take a
\* name they have not used yet.  The last name is longer than the others:
\* a header that has the pointer of one name and the length of another is
\* then no header of a name.
ConcNodes == <<"n1", "n2", "n3", "n4", "n10">>

\* The node names named in the calls so far.
NamedNodes ==
    UNION {addedCM[k] : k \in DOMAIN addedCM}
    \cup UNION {addedSecret[k] : k \in DOMAIN addedSecret}

\* The pod is on a node named before, or on the first node not named yet.
NextNode(pod) ==
    \E i \in 1..Len(ConcNodes) :
       /\ pod.Spec.NodeName = ConcNodes[i]
       /\ \A j \in 1..(i - 1) : ConcNodes[j] \in NamedNodes

\* The pods the concurrent callers pass: each names one config map, or,
\* on the first two nodes, one secret.
ConcPods ==
    { Pod("ns1", n, PodSpec(<<Volume(Ref("cfg1"), Nil, Nil)>>, << >>, << >>)) :
        n \in Range(ConcNodes) }
    \cup { Pod("ns1", n, PodSpec(<< >>, << >>, <<Ref("sec1")>>)) :
             n \in {"n1", "n2"} }

\* A string header in an array is written as the name it is the header
\* of.  A header put together from words of two writes, with the pointer
\* of the name ptr and a length that is not the length of ptr, is written
\* ptr#length.  The zero header (nil, 0) is the header of "".
Digits == <<"0", "1", "2", "3", "4", "5", "6", "7", "8", "9">>

IsMixed(h) == Len(h) >= 2 /\ SubSeq(h, Len(h) - 1, Len(h) - 1) = "#"

\* The pointer word of a header: the name whose bytes it points to.
PtrWord(h) == IF IsMixed(h) THEN SubSeq(h, 1, Len(h) - 2) ELSE h

\* The length word of a header.
LenWord(h) ==
    IF IsMixed(h)
      THEN CHOOSE d \in 0..9 : Digits[d + 1] = SubSeq(h, Len(h), Len(h))
      ELSE Len(h)

\* The header with the given words.
Header(ptr, length) ==
    IF length = Len(ptr) THEN ptr ELSE ptr \o "#" \o Digits[length + 1]

\* n == node at line 74, for an element n read from a shared array: the
\* lengths are compared, then the bytes.  A header that is longer than
\* the name it points to has bytes after the name that the program never
\* wrote: their comparison can go either way, and with the nil pointer the
\* comparison faults.
StringEqual(n, node) ==
    LET ptr == PtrWord(n)
        length == LenWord(n)
    IN  IF length # Len(node) THEN {"differ"}
        ELSE IF length <= Len(ptr)
          THEN {IF SubSeq(ptr, 1, length) = node THEN "equal" ELSE "differ"}
        ELSE IF ptr = "" THEN {"fault"}
        ELSE IF SubSeq(node, 1, Len(ptr)) = ptr THEN {"equal", "differ"}
        ELSE {"differ"}

\* A caller that is in no call.  In a call, i is the element of the array
\* the caller is at and word the pointer it has read, or the word it has
\* still to write.
Idle ==
    [pc |-> "idle", pod |-> Nil, loop |-> "", names |-> << >>,
     secrets |-> << >>, value |-> NilSlice, newNodes |-> NilSlice,
     i |-> 0, word |-> ""]

\* The frame at the head of the next iteration, or of the next loop, or
\* after the return: lines 84, 98 and 111.
Advance(f, names) ==
    IF names # << >> THEN [f EXCEPT !.pc = "load", !.names = names,
                                    !.value = NilSlice, !.newNodes = NilSlice,
                                    !.i = 0, !.word = ""]
    ELSE IF f.loop = "configMaps" /\ f.secrets # << >>
      THEN [f EXCEPT !.pc = "load", !.loop = "secrets", !.names = f.secrets,
                     !.secrets = << >>,
                     !.value = NilSlice, !.newNodes = NilSlice,
                     !.i = 0, !.word = ""]
    ELSE Idle

\* The map a loop works on.
IndexOf(loop) == IF loop = "configMaps" THEN configMapNode ELSE secretNode

\* The step's result, with the map of the loop replaced.
CommitIndex(loop, index, m, pr) ==
    IF loop = "configMaps" THEN Commit(index, secretNode, m, pr, last)
                           ELSE Commit(configMapNode, index, m, pr, last)

\* A caller enters AddOrUpdatePod, line 83.
Enter(p, pod) ==
    LET ex == PodConfigMapsAndSecrets(pod)
        f  == [Idle EXCEPT !.pod = pod, !.loop = "configMaps",
                           !.secrets = ex.secrets]
    IN  /\ proc[p].pc = "idle"
        /\ \A q \in 1..(p - 1) : proc[q].pc # "idle"
        /\ nconc < MaxConcCalls
        /\ NextNode(pod)
        /\ nconc' = nconc + 1
        /\ proc' = [proc EXCEPT ![p] = Advance(f, ex.configMaps)]
        /\ addedCM' = Noted(addedCM, pod.Namespace, ex.configMaps,
                            pod.Spec.NodeName)
        /\ addedSecret' = Noted(addedSecret, pod.Namespace, ex.secrets,
                                pod.Spec.NodeName)
        /\ UNCHANGED <<EdgeNodes, configMapNode, secretNode, endpoints, mem,
                       last, ncalls, repeats, deleted, nodeOp, endpointsOp>>

\* Load, lines 87-94 and 101-108; without a value the caller builds the
\* literal, which it shares with nobody yet.  With a value it goes to the
\* first element of the loop of newNodes.
Load(p) ==
    LET f == proc[p]
        key == Key(f.pod.Namespace, Head(f.names))
        index == IndexOf(f.loop)
        lit == Literal(mem, f.pod.Spec.NodeName)
    IN  /\ f.pc = "load"
        /\ IF key \in DOMAIN index
             THEN Commit(configMapNode, secretNode, mem,
                         [proc EXCEPT ![p].pc = IF index[key].len = 0
                                                  THEN "append" ELSE "search",
                                      ![p].value = index[key],
                                      ![p].i = 1], last)
             ELSE Commit(configMapNode, secretNode, lit.mem,
                         [proc EXCEPT ![p].pc = "store",
                                      ![p].newNodes = lit.nodes], last)
        /\ UNCHANGED <<EdgeNodes, endpoints, ncalls, repeats, addedCM,
                       addedSecret, deleted, nodeOp, endpointsOp, nconc>>

\* The loop of newNodes, line 73: the caller reads the pointer of
\* element i of the slice it loaded.  The two words of an element are
\* read as they lie in memory, the pointer before the length.
SearchPointer(p) ==
    LET f == proc[p] IN
    /\ f.pc = "search"
    /\ Commit(configMapNode, secretNode, mem,
              [proc EXCEPT ![p].pc = "compare",
                           ![p].word = PtrWord(mem[f.value.ptr][f.i])], last)
    /\ UNCHANGED <<EdgeNodes, endpoints, ncalls, repeats, addedCM,
                   addedSecret, deleted, nodeOp, endpointsOp, nconc>>

\* The loop of newNodes, lines 73-77: the caller reads the length of
\* element i and compares the element with the node.  On a match newNodes
\* returns the slice that was loaded; after the last element the caller
\* goes on to the append.
SearchLength(p) ==
    LET f == proc[p]
        n == Header(f.word, LenWord(mem[f.value.ptr][f.i]))
    IN  /\ f.pc = "compare"
        /\ \E result \in StringEqual(n, f.pod.Spec.NodeName) :
              Commit(configMapNode, secretNode, mem,
                     [proc EXCEPT ![p] =
                        IF result = "fault" THEN [f EXCEPT !.pc = "fault"]
                        ELSE IF result = "equal"
                          THEN [f EXCEPT !.pc = "store", !.newNodes = f.value,
                                         !.i = 0, !.word = ""]
                        ELSE IF f.i < f.value.len
                          THEN [f EXCEPT !.pc = "search", !.i = f.i + 1,
                                         !.word = ""]
                        ELSE [f EXCEPT !.pc = "append", !.i = 0, !.word = ""]],
                     last)
        /\ UNCHANGED <<EdgeNodes, endpoints, ncalls, repeats, addedCM,
                       addedSecret, deleted, nodeOp, endpointsOp, nconc>>

\* The loop of newNodes, lines 73-77, a word at a time.
Search(p) == SearchPointer(p) \/ SearchLength(p)

\* The array with one word of element i replaced.
WithWord(array, i, which, node) ==
    [array EXCEPT ![i] = IF which = "ptr" THEN Header(node, LenWord(@))
                                           ELSE Header(PtrWord(@), Len(node))]

\* The other word of a header.
Other(which) == IF which = "ptr" THEN "len" ELSE "ptr"

\* The append of newNodes, line 78, with room left in the array the slice
\* was loaded with: the caller writes one word of the element after the
\* last, in the order the build has chosen.
AppendWord(p) ==
    LET f == proc[p] IN
    /\ f.pc = "append"
    /\ f.value.len < Cap(mem, f.value)
    /\ \E which \in {"ptr", "len"} :
          Commit(configMapNode, secretNode,
                 [mem EXCEPT ![f.value.ptr] =
                     WithWord(@, f.value.len + 1, which, f.pod.Spec.NodeName)],
                 [proc EXCEPT ![p].pc = "append2", ![p].word = Other(which)],
                 last)
    /\ UNCHANGED <<EdgeNodes, endpoints, ncalls, repeats, addedCM,
                   addedSecret, deleted, nodeOp, endpointsOp, nconc>>

\* The append of newNodes, line 78, in place: the caller writes the other
\* word of the element and has the slice that is one element longer.
AppendOtherWord(p) ==
    LET f == proc[p] IN
    /\ f.pc = "append2"
    /\ Commit(configMapNode, secretNode,
              [mem EXCEPT ![f.value.ptr] =
                  WithWord(@, f.value.len + 1, f.word, f.pod.Spec.NodeName)],
              [proc EXCEPT ![p].pc = "store", ![p].word = "",
                           ![p].newNodes = [ptr |-> f.value.ptr,
                                            len |-> f.value.len + 1]],
              last)
    /\ UNCHANGED <<EdgeNodes, endpoints, ncalls, repeats, addedCM,
                   addedSecret, deleted, nodeOp, endpointsOp, nconc>>

\* The append of newNodes, line 78, with no room left: the caller takes
\* a fresh array of the grown capacity, which nobody else has, and reads
\* the pointer of element i of the old array to copy it.
CopyPointer(p) ==
    LET f == proc[p]
        a == NewAddr(mem)
        c == GrowCap(Cap(mem, f.value), f.value.len + 1)
        fresh == f.pc = "append"
        m == IF fresh THEN Put(mem, a, [j \in 1..c |-> ""]) ELSE mem
        i == IF fresh THEN 1 ELSE f.i
    IN  /\ \/ f.pc = "append" /\ f.value.len = Cap(mem, f.value)
           \/ f.pc = "copy"
        /\ Commit(configMapNode, secretNode, m,
                  [proc EXCEPT ![p].pc = "copy2", ![p].i = i,
                               ![p].word = PtrWord(mem[f.value.ptr][i]),
                               ![p].newNodes =
                                  IF fresh THEN [ptr |-> a,
                                                 len |-> f.value.len + 1]
                                  ELSE f.newNodes],
                  last)
        /\ UNCHANGED <<EdgeNodes, endpoints, ncalls, repeats, addedCM,
                       addedSecret, deleted, nodeOp, endpointsOp, nconc>>

\* The append of newNodes, line 78, copying: the caller reads the length
\* of element i of the old array and has the element in its own array;
\* after the last element it writes the node behind the copy.
CopyLength(p) ==
    LET f == proc[p]
        n == Header(f.word, LenWord(mem[f.value.ptr][f.i]))
        more == f.i < f.value.len
        copy == [mem[f.newNodes.ptr] EXCEPT ![f.i] = n]
        array == IF more THEN copy
                 ELSE [copy EXCEPT ![f.value.len + 1] = f.pod.Spec.NodeName]
    IN  /\ f.pc = "copy2"
        /\ Commit(configMapNode, secretNode,
                  [mem EXCEPT ![f.newNodes.ptr] = array],
                  [proc EXCEPT ![p].pc = IF more THEN "copy" ELSE "store",
                               ![p].i = IF more THEN f.i + 1 ELSE 0,
                               ![p].word = ""],
                  last)
        /\ UNCHANGED <<EdgeNodes, endpoints, ncalls, repeats, addedCM,
                       addedSecret, deleted, nodeOp, endpointsOp, nconc>>

\* The append of newNodes, line 78, a word at a time.
Grow(p) ==
    \/ AppendWord(p)
    \/ AppendOtherWord(p)
    \/ CopyPointer(p)
    \/ CopyLength(p)

\* Store, lines 95 and 109, and on to the next iteration or the return.
Store(p) ==
    LET f == proc[p]
        key == Key(f.pod.Namespace, Head(f.names))
    IN  /\ f.pc = "store"
        /\ CommitIndex(f.loop, Put(IndexOf(f.loop), key, f.newNodes), mem,
                       [proc EXCEPT ![p] = Advance(f, Tail(f.names))])
        /\ UNCHANGED <<EdgeNodes, endpoints, ncalls, repeats, addedCM,
                       addedSecret, deleted, nodeOp, endpointsOp, nconc>>

\* DeleteConfigMap, lines 149-151, by a caller of its own.
ConcDeleteConfigMap(namespace, name) ==
    /\ nconc < MaxConcCalls
    /\ nconc' = nconc + 1
    /\ Commit(Remove(configMapNode, Key(namespace, name)), secretNode, mem,
              proc, last)
    /\ deleted' = TRUE
    /\ UNCHANGED <<EdgeNodes, endpoints, ncalls, repeats, addedCM,
                   addedSecret, nodeOp, endpointsOp>>

\* DeleteSecret, lines 154-156, by a caller of its own.
ConcDeleteSecret(namespace, name) ==
    /\ nconc < MaxConcCalls
    /\ nconc' = nconc + 1
    /\ Commit(configMapNode, Remove(secretNode, Key(namespace, name)), mem,
              proc, last)
    /\ deleted' = TRUE
    /\ UNCHANGED <<EdgeNodes, endpoints, ncalls, repeats, addedCM,
                   addedSecret, nodeOp, endpointsOp>>

\* AddOrUpdatePod by a caller that runs alone, before any of the
\* concurrent callers has started.
Alone(pod) == nconc = 0 /\ NextNode(pod) /\ AddOrUpdatePod(pod)

\* The state after construction, with every caller idle.
InitConc ==
    /\ EdgeNodes = {}
    /\ configMapNode = Empty
    /\ secretNode = Empty
    /\ endpoints = Empty
    /\ mem = Empty
    /\ proc = [p \in Procs |-> Idle]
    /\ last = NoCall
    /\ ncalls = 0
    /\ repeats = 0
    /\ addedCM = Empty
    /\ addedSecret = Empty
    /\ deleted = FALSE
    /\ nodeOp = Empty
    /\ endpointsOp = Empty
    /\ nconc = 0

\* Up to MaxCalls calls made one at a time, then up to MaxConcCalls calls
\* made by callers that run at the same time.
NextConc ==
    \/ \E pod \in ConcPods : Alone(pod)
    \/ \E p \in Procs, pod \in ConcPods : Enter(p, pod)
    \/ \E p \in Procs : Load(p)
    \/ \E p \in Procs : Search(p)
    \/ \E p \in Procs : Grow(p)
    \/ \E p \in Procs : Store(p)
    \/ ConcDeleteConfigMap("ns1", "cfg1")
    \/ ConcDeleteSecret("ns1", "sec1")

SpecConc == InitConc /\ [][NextConc]_vars

-----------------------------------------------------------------------------
(* Claims on the reverse index, one caller at a time *)

\* C2: after AddOrUpdatePod(P) has returned, once or several times in a
\* row, every config map P references lists P's node exactly once, and a
\* call that repeats the call before it leaves the node list of every key
\* of both indices as it was.
C2_AddIsIdempotent ==
    [][ (last'.op = "AddOrUpdatePod" /\ ncalls' = ncalls + 1) =>
          LET pod == last'.args[1]
              cms == PodConfigMapsAndSecrets(pod).configMaps
          IN  /\ \A i \in 1..Len(cms) :
                    Count(ListOf(configMapNode', mem',
                                 Key(pod.Namespace, cms[i])),
                          pod.Spec.NodeName) = 1
              /\ repeats' >= 2 =>
                    /\ View(configMapNode', mem') = View(configMapNode, mem)
                    /\ View(secretNode', mem') = View(secretNode, mem) ]_vars

\* C2's case: the same pod, which references a config map, has been added
\* three times in a row.
C2_Witness ==
    /\ last.op = "AddOrUpdatePod"
    /\ repeats = 3
    /\ PodConfigMapsAndSecrets(last.args[1]).configMaps # << >>

\* C3: as long as nothing has been deleted, the nodes ConfigMapNodes and
\* SecretNodes return for an object are exactly the node names of the pods
\* added in the object's namespace whose extracted names include the
\* object's name.
C3_NodesAreThoseOfAddedPods ==
    ~deleted =>
       /\ \A ns \in Namespaces, name \in ConfigMapNames :
             Range(Elems(mem, ConfigMapNodes(ns, name)))
               = AddedTo(addedCM, ns, name)
       /\ \A ns \in Namespaces, name \in SecretNames :
             Range(Elems(mem, SecretNodes(ns, name)))
               = AddedTo(addedSecret, ns, name)

\* C3's case: two pods on the nodes n1 and n2 that reference cfg1 have been
\* added in ns1 and a pod that references cfg1 has been added in ns2.
C3_Witness ==
    /\ ~deleted
    /\ Elems(mem, ConfigMapNodes("ns1", "cfg1")) = <<"n1", "n2">>
    /\ Elems(mem, ConfigMapNodes("ns2", "cfg1")) = <<"n2">>

\* C5: right after DeleteConfigMap(ns, name), ConfigMapNodes(ns, name)
\* returns no node, and right after DeleteSecret(ns, name),
\* SecretNodes(ns, name) returns no node.
C5_DeletedKeyIsEmpty ==
    /\ last.op = "DeleteConfigMap" =>
          Elems(mem, ConfigMapNodes(last.args[1], last.args[2])) = << >>
    /\ last.op = "DeleteSecret" =>
          Elems(mem, SecretNodes(last.args[1], last.args[2])) = << >>

\* C5's case: a config map that two pods on two nodes used has just been
\* deleted.
C5_Witness ==
    /\ last.op = "DeleteConfigMap"
    /\ ncalls = 3
    /\ Cardinality(AddedTo(addedCM, last.args[1], last.args[2])) = 2

-----------------------------------------------------------------------------
(* Claims on the set of edge nodes *)

\* C6: IsEdgeNode(n) is true exactly when the most recent of the calls of
\* UpdateEdgeNode and DeleteNode that name n is UpdateEdgeNode(n); a call of
\* IsEdgeNode returns that value.
C6_EdgeNodeFollowsLastCall ==
    /\ \A n \in EdgeNames :
          IsEdgeNode(n) <=> (n \in DOMAIN nodeOp /\ nodeOp[n] = "UpdateEdgeNode")
    /\ last.op = "IsEdgeNode" =>
          (last.ok <=> (last.args[1] \in DOMAIN nodeOp
                        /\ nodeOp[last.args[1]] = "UpdateEdgeNode"))

\* C6's case: IsEdgeNode has answered false for a node that was updated and
\* then deleted, while another node is an edge node and a third was never
\* named.
C6_Witness ==
    /\ last.op = "IsEdgeNode" /\ ~last.ok
    /\ last.args[1] \in DOMAIN nodeOp /\ nodeOp[last.args[1]] = "DeleteNode"
    /\ \E m \in EdgeNames : IsEdgeNode(m)
    /\ \E m \in EdgeNames : m \notin DOMAIN nodeOp

-----------------------------------------------------------------------------
(* Claims on the endpoints store *)

\* No snapshot is due under the key of e: the key was never stored, or
\* DeleteEndpoints was called on it after it was last stored.
NotStored(e) ==
    LET id == <<e.ObjectMeta.Namespace, e.ObjectMeta.Name>> IN
    id \notin DOMAIN endpointsOp \/ endpointsOp[id] = "DeleteEndpoints"

\* new has the key of old, the labels of old and the subsets of old.
OnlyChurnDiffers(old, new) ==
    /\ old.ObjectMeta.Namespace = new.ObjectMeta.Namespace
    /\ old.ObjectMeta.Name = new.ObjectMeta.Name
    /\ old.ObjectMeta.Labels = new.ObjectMeta.Labels
    /\ old.Subsets = new.Subsets

\* C7: IsEndpointsUpdated(e) is true for every object e under whose key no
\* snapshot is stored, because the key was never stored or was removed by
\* DeleteEndpoints.
C7_UnknownKeyIsUpdated ==
    /\ \A e \in EndpointsObjects : NotStored(e) => IsEndpointsUpdated(e)
    /\ (last.op = "IsEndpointsUpdated" /\ NotStored(last.args[1]))
          => last.updated

\* C7's case: IsEndpointsUpdated has answered for a key that was stored and
\* then deleted, while the other key holds a snapshot.
C7_Witness ==
    /\ last.op = "IsEndpointsUpdated"
    /\ <<"ns1", last.args[1].ObjectMeta.Name>> \in DOMAIN endpointsOp
    /\ NotStored(last.args[1])
    /\ endpoints # Empty

\* C8: IsEndpointsUpdated(e) is false for every object e that differs from
\* the snapshot stored under its key in nothing but resource version,
\* generation and annotations.
C8_ChurnIsNotAnUpdate ==
    /\ \A e \in EndpointsObjects :
          (EndpointsKey(e) \in DOMAIN endpoints
           /\ OnlyChurnDiffers(endpoints[EndpointsKey(e)], e))
             => ~IsEndpointsUpdated(e)
    /\ (last.op = "IsEndpointsUpdated"
        /\ EndpointsKey(last.args[1]) \in DOMAIN endpoints
        /\ OnlyChurnDiffers(endpoints[EndpointsKey(last.args[1])],
                            last.args[1]))
          => ~last.updated

\* C8's case: IsEndpointsUpdated has answered for an object whose resource
\* version, generation and annotations all differ from the snapshot's and
\* whose labels and addresses are the snapshot's.
C8_Witness ==
    /\ last.op = "IsEndpointsUpdated"
    /\ EndpointsKey(last.args[1]) \in DOMAIN endpoints
    /\ LET old == endpoints[EndpointsKey(last.args[1])].ObjectMeta
           new == last.args[1].ObjectMeta
       IN  /\ old.ResourceVersion # new.ResourceVersion
           /\ old.Generation # new.Generation
           /\ old.Annotations # new.Annotations
           /\ old.Labels = new.Labels /\ old.Labels # Nil
    /\ endpoints[EndpointsKey(last.args[1])].Subsets = last.args[1].Subsets
    /\ last.args[1].Subsets = GoSlice(<<EndpointSubset(<<"ip1">>)>>)

\* C9: IsEndpointsUpdated(e) is true for every object e whose subsets or
\* whose labels differ from those of the snapshot stored under its key,
\* whatever resource version, generation and annotations the two have.
C9_ContentChangeIsAnUpdate ==
    /\ \A e \in EndpointsObjects :
          (EndpointsKey(e) \in DOMAIN endpoints
           /\ (endpoints[EndpointsKey(e)].Subsets # e.Subsets
               \/ endpoints[EndpointsKey(e)].ObjectMeta.Labels
                    # e.ObjectMeta.Labels))
             => IsEndpointsUpdated(e)
    /\ (last.op = "IsEndpointsUpdated"
        /\ EndpointsKey(last.args[1]) \in DOMAIN endpoints
        /\ (endpoints[EndpointsKey(last.args[1])].Subsets
              # last.args[1].Subsets
            \/ endpoints[EndpointsKey(last.args[1])].ObjectMeta.Labels
                 # last.args[1].ObjectMeta.Labels))
          => last.updated

\* C9's case: IsEndpointsUpdated has answered for an object that has one
\* address more in its subset than the snapshot and is the snapshot in
\* everything else.
C9_Witness ==
    /\ last.op = "IsEndpointsUpdated"
    /\ EndpointsKey(last.args[1]) \in DOMAIN endpoints
    /\ endpoints[EndpointsKey(last.args[1])].ObjectMeta
         = last.args[1].ObjectMeta
    /\ endpoints[EndpointsKey(last.args[1])].Subsets
         = GoSlice(<<EndpointSubset(<<"ip1">>)>>)
    /\ last.args[1].Subsets = GoSlice(<<EndpointSubset(<<"ip1", "ip2">>)>>)

-----------------------------------------------------------------------------
(* Claims on PodConfigMapsAndSecrets *)

\* The elements of a Go slice field that may be nil.
Items(field) == IF field = Nil THEN {} ELSE Range(field.Sources)

\* The config maps a pod names: in a volume, in a source of a projected
\* volume, in an envFrom entry and in the valueFrom of an env entry.
ReferencedConfigMaps(pod) ==
    LET vols == Range(pod.Spec.Volumes)
        cons == Range(pod.Spec.Containers)
    IN  {v.ConfigMap.Name : v \in {w \in vols : w.ConfigMap # Nil}}
        \cup UNION {{x.ConfigMap.Name :
                       x \in {y \in Items(v.Projected) : y.ConfigMap # Nil}} :
                    v \in vols}
        \cup UNION {{f.ConfigMapRef.Name :
                       f \in {g \in Range(c.EnvFrom) : g.ConfigMapRef # Nil}} :
                    c \in cons}
        \cup UNION {{e.ValueFrom.ConfigMapKeyRef.Name :
                       e \in {g \in Range(c.Env) :
                                g.ValueFrom # Nil
                                /\ g.ValueFrom.ConfigMapKeyRef # Nil}} :
                    c \in cons}

\* The secrets a pod names in a volume, in an envFrom entry and as image
\* pull secrets.
SecretsOutsideChoices(pod) ==
    LET vols == Range(pod.Spec.Volumes)
        cons == Range(pod.Spec.Containers)
    IN  {v.Secret.SecretName : v \in {w \in vols : w.Secret # Nil}}
        \cup UNION {{f.SecretRef.Name :
                       f \in {g \in Range(c.EnvFrom) : g.SecretRef # Nil}} :
                    c \in cons}
        \cup {r.Name : r \in Range(pod.Spec.ImagePullSecrets)}

\* The secrets a pod names in the sources of its projected volumes and in
\* the valueFrom of its env entries; with alone, only in those that name
\* no config map beside the secret.
SecretsInChoices(pod, alone) ==
    LET vols == Range(pod.Spec.Volumes)
        cons == Range(pod.Spec.Containers)
    IN  UNION {{x.Secret.Name :
                  x \in {y \in Items(v.Projected) :
                           y.Secret # Nil /\ (alone => y.ConfigMap = Nil)}} :
               v \in vols}
        \cup UNION {{e.ValueFrom.SecretKeyRef.Name :
                       e \in {g \in Range(c.Env) :
                                /\ g.ValueFrom # Nil
                                /\ g.ValueFrom.SecretKeyRef # Nil
                                /\ alone => g.ValueFrom.ConfigMapKeyRef = Nil}} :
                    c \in cons}

\* The pod of the example: a volume of config map cfg1, a projected volume
\* with a source of secret sec1, a container with envFrom of secret sec2
\* and an env entry from a key of config map cfg2, image pull secret sec3.
ExamplePod ==
    Pod("ns1", "n1",
        PodSpec(<<Volume(Ref("cfg1"), Nil, Nil),
                  Volume(Nil, Nil, Projected(<<Projection(Nil, Ref("sec1"))>>))>>,
                <<Container(<<EnvFromSource(Nil, Ref("sec2"))>>,
                            <<EnvVar(EnvVarSource(Ref("cfg2"), Nil))>>)>>,
                <<Ref("sec3")>>))

\* C10 as stated: the config maps returned are exactly those the pod names
\* and the secrets returned are exactly those the pod names, in any of the
\* places.
C10_Original ==
    last.op = "PodConfigMapsAndSecrets" =>
       /\ Range(last.configMaps) = ReferencedConfigMaps(last.args[1])
       /\ Range(last.secrets) = SecretsOutsideChoices(last.args[1])
                                  \cup SecretsInChoices(last.args[1], FALSE)

\* C10, amended: the config maps returned are exactly those the pod names;
\* the secrets returned are exactly those the pod names in a volume, in an
\* envFrom entry, as an image pull secret, or in a projected source or an
\* env valueFrom that names no config map beside the secret.  For the pod
\* of the example the result is cfg1, cfg2 and sec1, sec2, sec3.
C10_ExtractsTheReferences ==
    last.op = "PodConfigMapsAndSecrets" =>
       /\ Range(last.configMaps) = ReferencedConfigMaps(last.args[1])
       /\ Range(last.secrets) = SecretsOutsideChoices(last.args[1])
                                  \cup SecretsInChoices(last.args[1], TRUE)
       /\ last.args[1] = ExamplePod =>
             /\ last.configMaps = <<"cfg1", "cfg2">>
             /\ last.secrets = <<"sec1", "sec2", "sec3">>

\* C10's case: the pod of the example has been examined.
C10_Witness ==
    /\ last.op = "PodConfigMapsAndSecrets"
    /\ last.args[1] = ExamplePod

-----------------------------------------------------------------------------
(* Claims on the reverse index under concurrent callers *)

\* Every call made so far has returned.
AllReturned == \A p \in Procs : proc[p].pc = "idle"

\* C1: once every call has returned, when the calls made were N calls of
\* AddOrUpdatePod for pods on N different nodes that all reference cfg1 in
\* ns1, ConfigMapNodes(ns1, cfg1) holds all N node names.
C1_NoInsertionIsLost ==
    (/\ AllReturned
     /\ ~deleted
     /\ ncalls + nconc = Cardinality(AddedTo(addedCM, "ns1", "cfg1")))
       => Range(Elems(mem, ConfigMapNodes("ns1", "cfg1")))
            = AddedTo(addedCM, "ns1", "cfg1")

\* C4: in every state every node list of the config map index and of the
\* secret index holds each node name at most once.
C4_NoNodeTwice ==
    /\ \A k \in DOMAIN configMapNode :
          \A n \in Range(Elems(mem, configMapNode[k])) :
             Count(Elems(mem, configMapNode[k]), n) = 1
    /\ \A k \in DOMAIN secretNode :
          \A n \in Range(Elems(mem, secretNode[k])) :
             Count(Elems(mem, secretNode[k]), n) = 1

-----------------------------------------------------------------------------
(* The caller of ConfigMapNodes and SecretNodes writes to the list it got. *)
(* The list is the stored slice itself (lines 119 and 131): the caller's   *)
(* slice and the map's slice are two headers over one backing array.       *)

\* The pods added while a caller holds a list.
SharePods ==
    { Pod("ns1", n, sp) :
        n \in {"n1", "n2"},
        sp \in { PodSpec(<<Volume(Ref("cfg1"), Nil, Nil)>>, << >>, << >>),
                 PodSpec(<< >>, << >>, <<Ref("sec1")>>) } }

\* What the caller stores into the list it holds.
Scribble == "x"

\* What both indices hold, for a caller that asks now.
Views == [cm |-> View(configMapNode, mem), sec |-> View(secretNode, mem)]

\* The caller assigns to element i of the list it was returned: nodes[i-1] = x.
CallerOverwrites(i, x) ==
    /\ ncalls < MaxCalls
    /\ HasNodes(last)
    /\ i \in 1..last.nodes.len
    /\ Commit(configMapNode, secretNode,
              [mem EXCEPT ![last.nodes.ptr][i] = x], proc,
              [op |-> "overwrite", args |-> <<i, x>>, nodes |-> last.nodes,
               before |-> Views])
    /\ Returned("overwrite", <<i, x>>)
    /\ UNCHANGED <<EdgeNodes, endpoints, addedCM, addedSecret, deleted, nodeOp,
                   endpointsOp, nconc>>

\* The caller appends to the list it was returned: nodes = append(nodes, x).
CallerAppends(x) ==
    LET r == append(mem, last.nodes, x) IN
    /\ ncalls < MaxCalls
    /\ HasNodes(last)
    /\ Commit(configMapNode, secretNode, r.mem, proc,
              [op |-> "append", args |-> <<x>>, nodes |-> r.nodes,
               before |-> Views])
    /\ Returned("append", <<x>>)
    /\ UNCHANGED <<EdgeNodes, endpoints, addedCM, addedSecret, deleted, nodeOp,
                   endpointsOp, nconc>>

NextShare ==
    \/ \E pod \in SharePods : AddOrUpdatePod(pod)
    \/ CallConfigMapNodes("ns1", "cfg1")
    \/ CallSecretNodes("ns1", "sec1")
    \/ \E i \in 1..MaxCalls : CallerOverwrites(i, Scribble)
    \/ CallerAppends(Scribble)

SpecShare == Init /\ [][NextShare]_vars

\* C11: a write by the caller to a list that ConfigMapNodes or SecretNodes
\* returned (an element overwritten, an element appended) leaves what the
\* two indices return for every key as it was before the write.
C11_ReturnedListIsASnapshot ==
    last.op \in {"overwrite", "append"} => Views = last.before

-----------------------------------------------------------------------------
(* The caller of AddOrUpdateEndpoints changes its object after the call.   *)
(* A v1.Endpoints is passed and stored by value (line 165), which copies   *)
(* the struct: its maps and slices are references, and the copy refers to  *)
(* the same map and array as the caller's object.  Here an object holds    *)
(* references into mem for its annotations, its labels and its subsets.    *)

\* A reference to the map or array at address a.
RefTo(a) == [ref |-> a]

\* The content of a map or slice value.
Content(x) == IF "kv" \in DOMAIN x THEN x.kv ELSE x.elems

\* The map a references, as a value (nil stays nil).
DerefMap(m, x) == IF x = Nil THEN Nil ELSE GoMap(m[x.ref])

\* The slice a references, as a value (nil stays nil).
DerefSlice(m, x) == IF x = Nil THEN Nil ELSE GoSlice(m[x.ref])

\* The value of an endpoints object: what reading through it gives now.
Deref(m, e) ==
    [e EXCEPT !.ObjectMeta.Annotations = DerefMap(m, @),
              !.ObjectMeta.Labels = DerefMap(m, @),
              !.Subsets = DerefSlice(m, @)]

\* A map or slice made by the caller: nil, or a reference to new storage.
Alloc(m, x) ==
    IF x = Nil THEN [mem |-> m, val |-> Nil]
    ELSE LET a == NewAddr(m) IN [mem |-> Put(m, a, Content(x)), val |-> RefTo(a)]

\* An endpoints object with the value v, made by the caller.
Built(m, v) ==
    LET r1 == Alloc(m, v.ObjectMeta.Annotations)
        r2 == Alloc(r1.mem, v.ObjectMeta.Labels)
        r3 == Alloc(r2.mem, v.Subsets)
    IN  [mem |-> r3.mem,
         object |-> [v EXCEPT !.ObjectMeta.Annotations = r1.val,
                              !.ObjectMeta.Labels = r2.val,
                              !.Subsets = r3.val]]

\* The values of the objects the caller makes.
BuiltValues ==
    { v \in EndpointsObjects :
        /\ v.ObjectMeta.ResourceVersion = "2"
        /\ v.ObjectMeta.Labels = GoMap({<<"app", "x">>})
        /\ v.Subsets \in {Nil, GoSlice(<<EndpointSubset(<<"ip1">>)>>)} }

\* What GetAllEndpoints returns, read through: the stored values.
Snapshots == {Deref(mem, e) : e \in GetAllEndpoints}

\* The caller makes an object.
CallerBuilds(v) ==
    LET r == Built(mem, v) IN
    /\ ncalls < MaxCalls
    /\ mem' = r.mem
    /\ last' = [op |-> "build", args |-> <<r.object>>]
    /\ Returned("build", <<v>>)
    /\ UNCHANGED <<EdgeNodes, configMapNode, secretNode, endpoints, proc,
                   addedCM, addedSecret, deleted, nodeOp, endpointsOp, nconc>>

\* The caller passes the object it holds to AddOrUpdateEndpoints.
StoresItsObject ==
    /\ last.op \in {"build", "change"}
    /\ AddOrUpdateEndpoints(last.args[1])

\* The caller changes the object it passed, in place: e.Annotations["k"] =
\* "v", e.Labels["k"] = "v", or e.Subsets[0] = v1.EndpointSubset{}.
CallerChanges(field) ==
    LET e == last.args[1]
        x == CASE field = "Annotations" -> e.ObjectMeta.Annotations
               [] field = "Labels" -> e.ObjectMeta.Labels
               [] field = "Subsets" -> e.Subsets
    IN  /\ last.op \in {"AddOrUpdateEndpoints", "change"}
        /\ x # Nil
        /\ field = "Subsets" => mem[x.ref] # << >>
        /\ mem' = [mem EXCEPT ![x.ref] =
                      IF field = "Subsets"
                        THEN [@ EXCEPT ![1] = EndpointSubset(<< >>)]
                        ELSE {p \in @ : p[1] # "k"} \cup {<<"k", "v">>}]
        /\ last' = [op |-> "change", args |-> <<e>>, field |-> field,
                    before |-> Snapshots]
        /\ UNCHANGED <<EdgeNodes, configMapNode, secretNode, endpoints, proc,
                       ncalls, repeats, addedCM, addedSecret, deleted, nodeOp,
                       endpointsOp, nconc>>

NextOwner ==
    \/ \E v \in BuiltValues : CallerBuilds(v)
    \/ StoresItsObject
    \/ \E field \in {"Annotations", "Labels", "Subsets"} : CallerChanges(field)
    \/ CallGetAllEndpoints

SpecOwner == Init /\ [][NextOwner]_vars

\* C12: a change the caller makes in place to the object it passed to
\* AddOrUpdateEndpoints, after the call, leaves every stored snapshot with
\* the value it had: GetAllEndpoints still gives the same values.
C12_StoredSnapshotIsADeepCopy ==
    last.op = "change" => Snapshots = last.before

-----------------------------------------------------------------------------
(* Claims on the endpoints store, continued *)

\* The four maps of the cache, with the arrays the node lists are in.
Maps == <<EdgeNodes, configMapNode, secretNode, endpoints, mem>>

\* C13: a call of IsEndpointsUpdated, whatever it answers, leaves the four
\* maps as they were (the stored snapshot with its resource version,
\* generation and annotations included), and a call that repeats the call
\* before it gives the same answer.
C13_IsEndpointsUpdatedIsAQuery ==
    [][ last'.op = "IsEndpointsUpdated" =>
          /\ Maps' = Maps
          /\ (last.op = "IsEndpointsUpdated" /\ last.args = last'.args)
                => last'.updated = last.updated ]_vars

\* C13's case: IsEndpointsUpdated has answered false for an object whose
\* resource version, generation and annotations differ from those of the
\* snapshot stored under its key.
C13_Witness ==
    /\ last.op = "IsEndpointsUpdated"
    /\ ~last.updated
    /\ EndpointsKey(last.args[1]) \in DOMAIN endpoints
    /\ LET old == endpoints[EndpointsKey(last.args[1])].ObjectMeta
           new == last.args[1].ObjectMeta
       IN  /\ old.ResourceVersion # new.ResourceVersion
           /\ old.Generation # new.Generation
           /\ old.Annotations # new.Annotations

-----------------------------------------------------------------------------
(* The four maps in one cache: every operation, one caller at a time *)

\* The pods added: two that use the config map cfg1 and the secret sec1
\* of their namespace, on different nodes and in different namespaces.
AllPods ==
    { Pod("ns1", "n1", PodSpec(<<Volume(Ref("cfg1"), Nil, Nil)>>, << >>,
                                <<Ref("sec1")>>)),
      Pod("ns2", "n2", PodSpec(<<Volume(Ref("cfg1"), Nil, Nil)>>, << >>,
                                <<Ref("sec1")>>)) }

\* The node names passed to the operations on the set of edge nodes.
AllEdgeNames == {"n1", "n2"}

\* The endpoints objects passed: two values of ep1 and one of ep2.
AllEndpoints ==
    { Endpoints("ns1", "ep1", "1", 1, Nil, Nil, s) :
        s \in {Nil, GoSlice(<<EndpointSubset(<<"ip1">>)>>)} }
    \cup { Endpoints("ns1", "ep2", "1", 1, Nil, Nil, Nil) }

NextAll ==
    \/ \E pod \in AllPods : AddOrUpdatePod(pod)
    \/ \E ns \in Namespaces : CallConfigMapNodes(ns, "cfg1")
    \/ \E ns \in Namespaces : CallSecretNodes(ns, "sec1")
    \/ \E ns \in Namespaces : DeleteConfigMap(ns, "cfg1")
    \/ \E ns \in Namespaces : DeleteSecret(ns, "sec1")
    \/ \E n \in AllEdgeNames : UpdateEdgeNode(n)
    \/ \E n \in AllEdgeNames : DeleteNode(n)
    \/ \E n \in AllEdgeNames : CallIsEdgeNode(n)
    \/ \E e \in AllEndpoints : AddOrUpdateEndpoints(e)
    \/ \E e \in AllEndpoints : DeleteEndpoints(e)
    \/ \E e \in AllEndpoints : CallIsEndpointsUpdated(e)
    \/ CallGetAllEndpoints

SpecAll == Init /\ [][NextAll]_vars

\* What the four maps hold, for a caller that reads them.
Cache == <<EdgeNodes, View(configMapNode, mem), View(secretNode, mem), endpoints>>

\* C14: a query on a key that is not stored answers with the empty list
\* (ConfigMapNodes, SecretNodes) or with false (IsEdgeNode), and a deletion
\* of a key that is not stored (DeleteConfigMap, DeleteSecret, DeleteNode,
\* DeleteEndpoints) leaves the four maps as they were.
C14_AbsentKeyIsNoFailure ==
    [][ LET op == last'.op
            a  == last'.args
        IN  /\ (op = "ConfigMapNodes" /\ Key(a[1], a[2]) \notin DOMAIN configMapNode)
                  => Elems(mem', last'.nodes) = << >>
            /\ (op = "SecretNodes" /\ Key(a[1], a[2]) \notin DOMAIN secretNode)
                  => Elems(mem', last'.nodes) = << >>
            /\ (op = "IsEdgeNode" /\ a[1] \notin EdgeNodes) => ~last'.ok
            /\ (op = "DeleteConfigMap" /\ Key(a[1], a[2]) \notin DOMAIN configMapNode)
                  => Cache' = Cache
            /\ (op = "DeleteSecret" /\ Key(a[1], a[2]) \notin DOMAIN secretNode)
                  => Cache' = Cache
            /\ (op = "DeleteNode" /\ a[1] \notin EdgeNodes) => Cache' = Cache
            /\ (op = "DeleteEndpoints" /\ EndpointsKey(a[1]) \notin DOMAIN endpoints)
                  => Cache' = Cache ]_vars

\* C14's case: DeleteSecret has been called for a key that no pod added
\* uses, in a cache whose four maps all hold something.
C14_Witness ==
    /\ last.op = "DeleteSecret"
    /\ <<last.args[1], last.args[2]>> \notin DOMAIN addedSecret
    /\ EdgeNodes # {}
    /\ configMapNode # Empty
    /\ secretNode # Empty
    /\ endpoints # Empty

\* The namespace and name of an endpoints object.
Id(e) == <<e.ObjectMeta.Namespace, e.ObjectMeta.Name>>

\* The namespaces and names the callers use.
Ids == {<<"ns1", name>> : name \in EndpointsNames}

\* The objects of all that have the given namespace and name.
Of(all, id) == {e \in all : Id(e) = id}

\* C16: after every call, GetAllEndpoints holds for each namespace and name
\* exactly the object passed to AddOrUpdateEndpoints if that is the most
\* recent call for it, whatever was stored before, and no object if the most
\* recent call for it is DeleteEndpoints or if there was none.
C16_GetAllFollowsLastCall ==
    [][ /\ \A e \in GetAllEndpoints' : Id(e) \in Ids
        /\ \A id \in Ids :
              /\ Of(GetAllEndpoints', id) =
                    IF last'.op = "AddOrUpdateEndpoints" /\ Id(last'.args[1]) = id
                      THEN {last'.args[1]}
                    ELSE IF last'.op = "DeleteEndpoints" /\ Id(last'.args[1]) = id
                      THEN {}
                    ELSE Of(GetAllEndpoints, id)
              /\ Of(GetAllEndpoints', id) # {}
                    <=> /\ id \in DOMAIN endpointsOp'
                        /\ endpointsOp'[id] = "AddOrUpdateEndpoints" ]_vars

\* C16's case: GetAllEndpoints has returned one object with subsets, for
\* ep1, after a DeleteEndpoints for ep2.
C16_Witness ==
    /\ last.op = "GetAllEndpoints"
    /\ Cardinality(last.all) = 1
    /\ \E e \in last.all : Id(e) = <<"ns1", "ep1">> /\ e.Subsets # Nil
    /\ <<"ns1", "ep2">> \in DOMAIN endpointsOp
    /\ endpointsOp[<<"ns1", "ep2">>] = "DeleteEndpoints"

-----------------------------------------------------------------------------
(* Claims on the four maps together *)

\* The two maps differ at most at the given keys.
SameBut(after, before, keys) ==
    \A k \in (DOMAIN after \cup DOMAIN before) \ keys :
       k \in DOMAIN after /\ k \in DOMAIN before /\ after[k] = before[k]

\* The keys a pod's names make in its namespace.
KeysOf(namespace, names) == {Key(namespace, names[i]) : i \in 1..Len(names)}

\* C17: each operation changes only its own map and only the keys it
\* names.  UpdateEdgeNode and DeleteNode change at most their node in the
\* set of edge nodes; AddOrUpdateEndpoints and DeleteEndpoints at most the
\* entry of the object's key in the endpoints store; DeleteConfigMap and
\* DeleteSecret at most their key in their index; AddOrUpdatePod at most
\* the keys that the pod's namespace makes with the names extracted from
\* it, in the two indices.
C17_OperationsChangeTheirOwnKeys ==
    [][ LET op == last'.op
            a  == last'.args
            cm == View(configMapNode, mem)
            cmAfter == View(configMapNode', mem')
            sec == View(secretNode, mem)
            secAfter == View(secretNode', mem')
        IN  /\ op \in {"UpdateEdgeNode", "DeleteNode"} =>
                  /\ EdgeNodes' \ {a[1]} = EdgeNodes \ {a[1]}
                  /\ cmAfter = cm /\ secAfter = sec /\ endpoints' = endpoints
            /\ op \in {"AddOrUpdateEndpoints", "DeleteEndpoints"} =>
                  /\ SameBut(endpoints', endpoints, {EndpointsKey(a[1])})
                  /\ cmAfter = cm /\ secAfter = sec /\ EdgeNodes' = EdgeNodes
            /\ op = "DeleteConfigMap" =>
                  /\ SameBut(cmAfter, cm, {Key(a[1], a[2])})
                  /\ secAfter = sec
                  /\ EdgeNodes' = EdgeNodes /\ endpoints' = endpoints
            /\ op = "DeleteSecret" =>
                  /\ SameBut(secAfter, sec, {Key(a[1], a[2])})
                  /\ cmAfter = cm
                  /\ EdgeNodes' = EdgeNodes /\ endpoints' = endpoints
            /\ op = "AddOrUpdatePod" =>
                  LET ex == PodConfigMapsAndSecrets(a[1]) IN
                  /\ SameBut(cmAfter, cm, KeysOf(a[1].Namespace, ex.configMaps))
                  /\ SameBut(secAfter, sec, KeysOf(a[1].Namespace, ex.secrets))
                  /\ EdgeNodes' = EdgeNodes /\ endpoints' = endpoints ]_vars

\* C17's case: DeleteEndpoints has removed ep1 from a store that holds ep2,
\* after DeleteNode has removed n1 from a set that holds n2 and
\* DeleteConfigMap has removed cfg1 of ns1 from an index that holds cfg1 of
\* ns2, with sec1 of both namespaces in the index of secrets.
C17_Witness ==
    /\ last.op = "DeleteEndpoints"
    /\ Id(last.args[1]) = <<"ns1", "ep1">>
    /\ DOMAIN endpoints = {Key("ns1", "ep2")}
    /\ "n1" \in DOMAIN nodeOp
    /\ nodeOp["n1"] = "DeleteNode"
    /\ EdgeNodes = {"n2"}
    /\ <<"ns1", "cfg1">> \in DOMAIN addedCM
    /\ DOMAIN configMapNode = {Key("ns2", "cfg1")}
    /\ DOMAIN secretNode = {Key("ns1", "sec1"), Key("ns2", "sec1")}

-----------------------------------------------------------------------------
(* Claims on the reverse index, one caller at a time, continued *)

\* C18: after AddOrUpdatePod of a pod that has no node name, every config
\* map and every secret the pod references has its key in the index, and
\* the list of the key holds the empty string as a node.
C18_UnassignedPodIsRecorded ==
    (last.op = "AddOrUpdatePod" /\ last.args[1].Spec.NodeName = "") =>
        LET pod == last.args[1]
            ex == PodConfigMapsAndSecrets(pod)
        IN  /\ \A i \in 1..Len(ex.configMaps) :
                  LET k == Key(pod.Namespace, ex.configMaps[i]) IN
                  /\ k \in DOMAIN configMapNode
                  /\ "" \in Range(Elems(mem, configMapNode[k]))
            /\ \A i \in 1..Len(ex.secrets) :
                  LET k == Key(pod.Namespace, ex.secrets[i]) IN
                  /\ k \in DOMAIN secretNode
                  /\ "" \in Range(Elems(mem, secretNode[k]))

\* C18's case: a pod without a node name that references cfg1 has been
\* added twice, once to a cache without the key of cfg1 and once to a
\* cache that had a node for it.
C18_Witness ==
    /\ last.op = "AddOrUpdatePod"
    /\ last.args[1].Spec.NodeName = ""
    /\ ListOf(configMapNode, mem, Key("ns1", "cfg1")) = <<"">>
    /\ ListOf(configMapNode, mem, Key("ns2", "cfg1")) = <<"n1", "">>

\* s is the beginning of t.
IsPrefix(s, t) == Len(s) <= Len(t) /\ SubSeq(t, 1, Len(s)) = s

\* Every list of before is the beginning of the list of the same key in
\* after, which is at most one node longer.
Grown(after, before) ==
    \A k \in DOMAIN before :
       /\ k \in DOMAIN after
       /\ IsPrefix(before[k], after[k])
       /\ Len(after[k]) <= Len(before[k]) + 1

\* C19: a call of AddOrUpdatePod removes no node and moves none: every key
\* is still there after the call, with the list it had as the beginning of
\* its list and at most one node more.
C19_AddOnlyAppends ==
    [][ (last'.op = "AddOrUpdatePod" /\ ncalls' = ncalls + 1) =>
          /\ Grown(View(configMapNode', mem'), View(configMapNode, mem))
          /\ Grown(View(secretNode', mem'), View(secretNode, mem)) ]_vars

\* C19's case: a pod has been added from a third node to a key that had
\* two, one of them the pod's earlier node.
C19_Witness ==
    /\ last.op = "AddOrUpdatePod"
    /\ ~deleted
    /\ ListOf(configMapNode, mem, Key("ns1", "cfg1")) = <<"n1", "n2", "">>

-----------------------------------------------------------------------------
(* Readers and deleters of one config map among concurrent callers of      *)
(* AddOrUpdatePod.                                                         *)

\* The pods passed: each names the config map cfg1 of ns1.
RacePods ==
    { Pod("ns1", n, PodSpec(<<Volume(Ref("cfg1"), Nil, Nil)>>, << >>, << >>)) :
        n \in Range(ConcNodes) }

\* ConfigMapNodes, lines 114-123, by a caller of its own, which keeps the
\* list it was returned.
ConcConfigMapNodes(namespace, name) ==
    /\ nconc < MaxConcCalls
    /\ nconc' = nconc + 1
    /\ Commit(configMapNode, secretNode, mem, proc,
              [op |-> "ConfigMapNodes", args |-> <<namespace, name>>,
               nodes |-> ConfigMapNodes(namespace, name),
               seen |-> Elems(mem, ConfigMapNodes(namespace, name))])
    /\ UNCHANGED <<EdgeNodes, endpoints, ncalls, repeats, addedCM,
                   addedSecret, deleted, nodeOp, endpointsOp>>

NextRace ==
    \/ \E pod \in RacePods : Alone(pod)
    \/ \E p \in Procs, pod \in RacePods : Enter(p, pod)
    \/ \E p \in Procs : Load(p)
    \/ \E p \in Procs : Search(p)
    \/ \E p \in Procs : Grow(p)
    \/ \E p \in Procs : Store(p)
    \/ ConcConfigMapNodes("ns1", "cfg1")
    \/ ConcDeleteConfigMap("ns1", "cfg1")

SpecRace == InitConc /\ [][NextRace]_vars

\* C15: the list a caller was returned by ConfigMapNodes while callers of
\* AddOrUpdatePod were at work on the key holds, at every later moment,
\* the nodes it held when it was returned.
C15_ReturnedListStaysAsRead ==
    last.op = "ConfigMapNodes" => Elems(mem, last.nodes) = last.seen

\* C20: with n1 in the list of cfg1, when an AddOrUpdatePod for a pod on
\* n2 and a DeleteConfigMap of cfg1 have both been called, in any
\* interleaving, and have returned, n1 is not in the list of cfg1.
C20_DeleteRemovesTheEntry ==
    (/\ AllReturned
     /\ deleted
     /\ ncalls = 1
     /\ nconc = 2
     /\ AddedTo(addedCM, "ns1", "cfg1") = {"n1", "n2"})
       => "n1" \notin Range(ListOf(configMapNode, mem, Key("ns1", "cfg1")))

=============================================================================
